---- MODULE Spec2Model ----
(***************************************************************************)
(* Model of HistoricalForecastIterator                                     *)
(* (py/frequenz/client/weather/_historical_forecast_iterator.py).          *)
(*                                                                         *)
(* The iterator keeps a buffer of records (location_forecasts) and a page  *)
(* token.  __anext__ raises StopAsyncIteration when the buffer is empty    *)
(* and the token is the empty token, fetches one page when the buffer is   *)
(* empty, and then pops the first buffered record.  The await of the       *)
(* remote call is the only suspension point, so a call is either one step  *)
(* (no fetch) or two (issue the request, then complete it).                *)
(***************************************************************************)
EXTENDS Integers, Sequences, FiniteSets, TLC

\* ---------------------------------------------------------------- bounds
MaxPages == 3
MaxBatch == 2
MaxCalls == 6
NumCallers == 2
MaxFails == 1

\* ------------------------------------------------------------- constants
PAGE_SIZE == 20
EMPTY_PAGE_TOKEN == ""
\* Python's None, the value of page_token before the first fetch.
None == "None"
\* rec field of an outcome that carries no record.
NoRecord == 0

Callers == 1..NumCallers

\* Continuation token handed out with page i of a chain.
TokenNames == <<"T1", "T2", "T3", "T4", "T5", "T6">>
Token(i) == TokenNames[i]

\* The j-th record of page i (records are opaque and pairwise distinct).
Record(i, j) == 10 * i + j

\* --------------------------------------------------------------- helpers
Last(s) == s[Len(s)]

RECURSIVE Flatten(_)
Flatten(ss) == IF ss = <<>> THEN <<>> ELSE Head(ss) \o Flatten(Tail(ss))

\* ------------------------------------------------- constructor arguments
\* datetimes are microseconds since the epoch
QuerySpecs ==
    { [locations |-> <<1>>,    features |-> <<1, 2>>, start |-> 1500000, end |-> 3000001],
      [locations |-> <<1, 2>>, features |-> <<2>>,    start |-> 0,       end |-> 1500000] }

\* Timestamp.FromDatetime: whole seconds and the microsecond part in nanos.
FromDatetime(dt) == [seconds |-> dt \div 1000000, nanos |-> (dt % 1000000) * 1000]

\* Location.to_pb and ForecastFeature.value: one message/enum value per item.
LocationToPb(l) == [pb_location |-> l]
FeatureValue(f) == [pb_feature |-> f]

\* ------------------------------------------------------------ the service
\* A chain of n pages: page i < n carries Token(i), page n the empty token.
Chain(n, size) ==
    [i \in 1..n |->
        [location_forecasts |-> [j \in 1..size[i] |-> Record(i, j)],
         next_page_token    |-> IF i < n THEN Token(i) ELSE EMPTY_PAGE_TOKEN]]

Chains == UNION { { Chain(n, size) : size \in [1..n -> 0..MaxBatch] } : n \in 1..MaxPages }

\* Index of the page a request token asks for: an absent or empty token asks
\* for the first page, Token(i) for page i + 1.
PageIndex(tok) ==
    IF tok = None \/ tok = EMPTY_PAGE_TOKEN
    THEN 1
    ELSE 1 + CHOOSE i \in 1..Len(TokenNames) : Token(i) = tok

\* The service's answer to a request, when the call succeeds.
GetHistoricalWeatherForecast(chain, request) ==
    chain[PageIndex(request.pagination_params.page_token)]

\* ------------------------------------------------------------------ state
VARIABLES
    args,                \* the constructor's arguments (never changes)
    locations,           \* self.locations
    features,            \* self.features
    start_ts,            \* self.start_ts
    end_ts,              \* self.end_ts
    location_forecasts,  \* self.location_forecasts, the buffer
    page_token,          \* self.page_token
    pages,               \* the chain of pages the service holds
    pc,                  \* per caller: "idle" or "await" (suspended in the remote call)
    inflight,            \* per caller: index in requests of the call awaited, 0 if none
    requests,            \* history: every request sent to the service, in order
    status,              \* history: per request "pending", "ok", or the exception raised
    responses,           \* history: the responses of the successful fetches, in order
    outcomes,            \* history: how each finished __anext__ call ended, in order
    yielded              \* history: the records returned to the caller, in order

query == <<locations, features, start_ts, end_ts>>
self  == <<location_forecasts, page_token>>
hist  == <<requests, status, responses, outcomes, yielded>>
vars  == <<args, query, self, pages, pc, inflight, hist>>

Outcome(kind, rec, req) == [kind |-> kind, rec |-> rec, req |-> req]

\* ------------------------------------------------------------ __anext__
\* (variant of line 68 that takes any falsy token, None included, for the end)
IsExhaustedFalsy(buf, tok) == Len(buf) = 0 /\ tok \in {EMPTY_PAGE_TOKEN, None}

\* (variant of line 68 that tests for a sentinel the service never sends)
IsExhaustedWrongSentinel(buf, tok) == Len(buf) = 0 /\ tok = "EOF"

\* line 68: the exhaustion test
IsExhausted(buf, tok) == Len(buf) = 0 /\ tok = EMPTY_PAGE_TOKEN

\* (variant of line 71 that fetches ahead while one record is still buffered)
NeedsFetchEarly(buf) == Len(buf) <= 1

\* line 71: the buffer is empty, a page has to be fetched
NeedsFetch(buf) == Len(buf) = 0

\* (variant of lines 72-75 that never sets page_token)
PaginationParamsNoToken(tok) ==
    [page_size |-> PAGE_SIZE, page_token |-> None]

\* lines 72-75: page_size always, page_token only when one is held
PaginationParams(tok) ==
    [page_size |-> PAGE_SIZE, page_token |-> IF tok # None THEN tok ELSE None]

\* (variant of lines 79-85 with start_ts and end_ts exchanged)
RequestSwapped(locs, feats, s, e, tok) ==
    [locations         |-> [k \in 1..Len(locs)  |-> LocationToPb(locs[k])],
     features          |-> [k \in 1..Len(feats) |-> FeatureValue(feats[k])],
     start_ts          |-> e,
     end_ts            |-> s,
     pagination_params |-> PaginationParams(tok)]

\* lines 79-85: the request message
Request(locs, feats, s, e, tok) ==
    [locations         |-> [k \in 1..Len(locs)  |-> LocationToPb(locs[k])],
     features          |-> [k \in 1..Len(feats) |-> FeatureValue(feats[k])],
     start_ts          |-> s,
     end_ts            |-> e,
     pagination_params |-> PaginationParams(tok)]

\* (variant of line 89 that stores None for an empty token)
StoreTokenOrNone(response) ==
    IF response.next_page_token = EMPTY_PAGE_TOKEN THEN None ELSE response.next_page_token

\* line 89
StoreToken(response) == response.next_page_token

\* line 90
StoreBuffer(response) == response.location_forecasts

\* (variant of line 92 that pops the last element, list.pop())
PopLast(buf) ==
    IF Len(buf) = 0
    THEN [kind |-> "IndexError", rec |-> NoRecord, rest |-> buf]
    ELSE [kind |-> "value", rec |-> buf[Len(buf)], rest |-> SubSeq(buf, 1, Len(buf) - 1)]

\* line 92: list.pop(0) removes and returns the first element, and raises
\* IndexError on an empty list
Pop(buf) ==
    IF Len(buf) = 0
    THEN [kind |-> "IndexError", rec |-> NoRecord, rest |-> buf]
    ELSE [kind |-> "value", rec |-> buf[1], rest |-> Tail(buf)]

Started == Len(outcomes) + Cardinality({c \in Callers : pc[c] = "await"})

\* lines 22-49
Init ==
    /\ args \in QuerySpecs
    /\ locations = args.locations
    /\ features = args.features
    /\ start_ts = FromDatetime(args.start)
    /\ end_ts = FromDatetime(args.end)
    /\ location_forecasts = <<>>
    /\ page_token = None
    /\ pages \in Chains
    /\ pc = [c \in Callers |-> "idle"]
    /\ inflight = [c \in Callers |-> 0]
    /\ requests = <<>>
    /\ status = <<>>
    /\ responses = <<>>
    /\ outcomes = <<>>
    /\ yielded = <<>>

\* (variant of lines 68-69 that forgets the token when it stops)
RaiseStopReset(c) ==
    /\ pc[c] = "idle"
    /\ Started < MaxCalls
    /\ IsExhausted(location_forecasts, page_token)
    /\ outcomes' = Append(outcomes, Outcome("StopAsyncIteration", NoRecord, 0))
    /\ page_token' = None
    /\ UNCHANGED <<args, query, location_forecasts, pages, pc, inflight, requests, status,
                   responses, yielded>>

\* lines 68-69: raise StopAsyncIteration
RaiseStop(c) ==
    /\ pc[c] = "idle"
    /\ Started < MaxCalls
    /\ IsExhausted(location_forecasts, page_token)
    /\ outcomes' = Append(outcomes, Outcome("StopAsyncIteration", NoRecord, 0))
    /\ UNCHANGED <<args, query, self, pages, pc, inflight, requests, status, responses, yielded>>

\* (variant of lines 71-87 that clears the stored token when it sends the request)
IssueFetchClearsToken(c) ==
    /\ pc[c] = "idle"
    /\ Started < MaxCalls
    /\ ~IsExhausted(location_forecasts, page_token)
    /\ NeedsFetch(location_forecasts)
    /\ requests' = Append(requests, Request(locations, features, start_ts, end_ts, page_token))
    /\ status' = Append(status, "pending")
    /\ inflight' = [inflight EXCEPT ![c] = Len(requests) + 1]
    /\ pc' = [pc EXCEPT ![c] = "await"]
    /\ page_token' = None
    /\ UNCHANGED <<args, query, location_forecasts, pages, responses, outcomes, yielded>>

\* (variant of lines 71-87 that refuses to fetch while another call is suspended
\* in its fetch, and raises RuntimeError instead)
IssueFetchBusy(c) ==
    /\ pc[c] = "idle"
    /\ Started < MaxCalls
    /\ ~IsExhausted(location_forecasts, page_token)
    /\ NeedsFetch(location_forecasts)
    /\ IF \E d \in Callers : pc[d] = "await"
       THEN /\ outcomes' = Append(outcomes, Outcome("RuntimeError", NoRecord, 0))
            /\ UNCHANGED <<requests, status, inflight, pc>>
       ELSE /\ requests' = Append(requests, Request(locations, features, start_ts, end_ts,
                                                    page_token))
            /\ status' = Append(status, "pending")
            /\ inflight' = [inflight EXCEPT ![c] = Len(requests) + 1]
            /\ pc' = [pc EXCEPT ![c] = "await"]
            /\ UNCHANGED outcomes
    /\ UNCHANGED <<args, query, self, pages, responses, yielded>>

\* lines 71-87: build the request, send it and suspend in the await
IssueFetch(c) ==
    /\ pc[c] = "idle"
    /\ Started < MaxCalls
    /\ ~IsExhausted(location_forecasts, page_token)
    /\ NeedsFetch(location_forecasts)
    /\ requests' = Append(requests, Request(locations, features, start_ts, end_ts, page_token))
    /\ status' = Append(status, "pending")
    /\ inflight' = [inflight EXCEPT ![c] = Len(requests) + 1]
    /\ pc' = [pc EXCEPT ![c] = "await"]
    /\ UNCHANGED <<args, query, self, pages, responses, outcomes, yielded>>

\* lines 92-93 when the buffer holds records: pop the first and return it
PopBuffered(c) ==
    /\ pc[c] = "idle"
    /\ Started < MaxCalls
    /\ ~IsExhausted(location_forecasts, page_token)
    /\ ~NeedsFetch(location_forecasts)
    /\ LET popped == Pop(location_forecasts)
       IN  /\ location_forecasts' = popped.rest
           /\ outcomes' = Append(outcomes, Outcome(popped.kind, popped.rec, 0))
           /\ yielded' = IF popped.kind = "value" THEN Append(yielded, popped.rec) ELSE yielded
    /\ UNCHANGED <<args, query, page_token, pages, pc, inflight, requests, status, responses>>

\* (variant of lines 77-93 that fetches again at once when the batch is empty
\* and a continuation token came with it)
FetchReturnRefetch(c) ==
    /\ pc[c] = "await"
    /\ LET response == GetHistoricalWeatherForecast(pages, requests[inflight[c]])
           popped   == Pop(StoreBuffer(response))
           again    == StoreBuffer(response) = <<>> /\ StoreToken(response) # EMPTY_PAGE_TOKEN
       IN  /\ page_token' = StoreToken(response)
           /\ location_forecasts' = popped.rest
           /\ responses' = Append(responses, response)
           /\ IF again
              THEN /\ requests' = Append(requests, Request(locations, features, start_ts, end_ts,
                                                           StoreToken(response)))
                   /\ status' = Append([status EXCEPT ![inflight[c]] = "ok"], "pending")
                   /\ inflight' = [inflight EXCEPT ![c] = Len(requests) + 1]
                   /\ UNCHANGED <<pc, outcomes, yielded>>
              ELSE /\ outcomes' = Append(outcomes, Outcome(popped.kind, popped.rec, inflight[c]))
                   /\ yielded' = IF popped.kind = "value" THEN Append(yielded, popped.rec)
                                 ELSE yielded
                   /\ status' = [status EXCEPT ![inflight[c]] = "ok"]
                   /\ pc' = [pc EXCEPT ![c] = "idle"]
                   /\ inflight' = [inflight EXCEPT ![c] = 0]
                   /\ UNCHANGED requests
    /\ UNCHANGED <<args, query, pages>>

\* lines 77-93: the remote call returns; store token and batch, pop the first
FetchReturn(c) ==
    /\ pc[c] = "await"
    /\ LET response == GetHistoricalWeatherForecast(pages, requests[inflight[c]])
           popped   == Pop(StoreBuffer(response))
       IN  /\ page_token' = StoreToken(response)
           /\ location_forecasts' = popped.rest
           /\ outcomes' = Append(outcomes, Outcome(popped.kind, popped.rec, inflight[c]))
           /\ yielded' = IF popped.kind = "value" THEN Append(yielded, popped.rec) ELSE yielded
           /\ responses' = Append(responses, response)
    /\ status' = [status EXCEPT ![inflight[c]] = "ok"]
    /\ pc' = [pc EXCEPT ![c] = "idle"]
    /\ inflight' = [inflight EXCEPT ![c] = 0]
    /\ UNCHANGED <<args, query, pages, requests>>

\* (variant of lines 77-87 that marks the iterator exhausted when the await raises)
FetchRaiseExhaust(c, exc) ==
    /\ pc[c] = "await"
    /\ outcomes' = Append(outcomes, Outcome(exc, NoRecord, inflight[c]))
    /\ status' = [status EXCEPT ![inflight[c]] = exc]
    /\ pc' = [pc EXCEPT ![c] = "idle"]
    /\ inflight' = [inflight EXCEPT ![c] = 0]
    /\ page_token' = EMPTY_PAGE_TOKEN
    /\ UNCHANGED <<args, query, location_forecasts, pages, requests, responses, yielded>>

\* lines 77-87: the await raises (the remote call failed, or the calling task
\* was cancelled); nothing catches it, so it leaves __anext__ before line 89
FetchRaise(c, exc) ==
    /\ pc[c] = "await"
    /\ outcomes' = Append(outcomes, Outcome(exc, NoRecord, inflight[c]))
    /\ status' = [status EXCEPT ![inflight[c]] = exc]
    /\ pc' = [pc EXCEPT ![c] = "idle"]
    /\ inflight' = [inflight EXCEPT ![c] = 0]
    /\ UNCHANGED <<args, query, self, pages, requests, responses, yielded>>

Exceptions == {"RemoteCallError", "CancelledError"}

\* One consumer at a time: a call starts only when no call is suspended.
Serialized == \A d \in Callers : pc[d] = "idle"

CallStop   == \E c \in Callers : Serialized /\ RaiseStop(c)
CallFetch  == \E c \in Callers : Serialized /\ IssueFetch(c)
CallPop    == \E c \in Callers : Serialized /\ PopBuffered(c)
AwaitDone  == \E c \in Callers : FetchReturn(c)
AwaitRaise == \E c \in Callers : \E exc \in Exceptions : FetchRaise(c, exc)

Next == CallStop \/ CallFetch \/ CallPop \/ AwaitDone \/ AwaitRaise

Spec == Init /\ [][Next]_vars

\* ======================================================== properties
\* No fetch so far has raised.
AllFetchesSucceeded == \A i \in 1..Len(status) : status[i] \in {"ok", "pending"}

\* All records of a chain, in page order.
ChainRecords(chain) == Flatten([i \in 1..Len(chain) |-> chain[i].location_forecasts])

\* The finished calls are, in order: one value per record of recs, then
\* nothing but StopAsyncIteration.
YieldsThenStops(recs) ==
    \A i \in 1..Len(outcomes) :
        IF i <= Len(recs)
        THEN outcomes[i].kind = "value" /\ outcomes[i].rec = recs[i]
        ELSE outcomes[i].kind = "StopAsyncIteration"

\* This step completed a fetch successfully.
FetchCompleted == Len(responses') = Len(responses) + 1

\* This step finished an __anext__ call.
CallFinished == Len(outcomes') = Len(outcomes) + 1

\* This step sent a request.
RequestSent == Len(requests') = Len(requests) + 1

TokenOf(request) == request.pagination_params.page_token

\* C1: for a chain whose last page is empty with the empty token, and with
\* every fetch succeeding, the calls yield the records of the chain in order
\* and then signal end-of-sequence, and no call ends any other way.
C1_Termination ==
    (Last(pages).location_forecasts = <<>> /\ AllFetchesSucceeded)
        => YieldsThenStops(ChainRecords(pages))

\* C2: the call whose fetch returns an empty batch and the empty token
\* signals end-of-sequence itself, and leaves the iterator exhausted.
C2_EmptyLastPageStops ==
    [][ (/\ FetchCompleted
         /\ Last(responses').location_forecasts = <<>>
         /\ Last(responses').next_page_token = EMPTY_PAGE_TOKEN)
        => (/\ CallFinished
            /\ Last(outcomes').kind = "StopAsyncIteration"
            /\ yielded' = yielded
            /\ IsExhausted(location_forecasts', page_token')) ]_vars

\* The pages [{records: [], token: "T1"}, {records: [r1, r2], token: ""}].
EmptyThenTwo == Chain(2, <<0, 2>>)

\* C3: an empty batch with a non-empty token does not end the sequence: the
\* token is stored, the iterator is not exhausted, the next call fetches with
\* that token, and for EmptyThenTwo the calls yield r1, r2, then
\* end-of-sequence.
C3_EmptyIntermediatePage ==
    /\ [][ (/\ FetchCompleted
             /\ Last(responses').location_forecasts = <<>>
             /\ Last(responses').next_page_token # EMPTY_PAGE_TOKEN)
            => (/\ page_token' = Last(responses').next_page_token
                /\ ~IsExhausted(location_forecasts', page_token')) ]_vars
    /\ [][ (/\ responses # <<>>
             /\ Last(responses).location_forecasts = <<>>
             /\ Last(responses).next_page_token # EMPTY_PAGE_TOKEN
             /\ Serialized
             /\ vars' # vars)
            => (RequestSent /\ TokenOf(Last(requests')) = Last(responses).next_page_token) ]_vars
    /\ []((pages = EmptyThenTwo /\ AllFetchesSucceeded)
            => YieldsThenStops(ChainRecords(EmptyThenTwo)))

\* Some finished call has signaled end-of-sequence.
SignaledStop == \E i \in 1..Len(outcomes) : outcomes[i].kind = "StopAsyncIteration"

\* C4: once a call has signaled end-of-sequence, every later call signals
\* end-of-sequence too, yields nothing, sends no request and leaves buffer
\* and token as they are.
C4_ExhaustionTerminal ==
    [][ SignaledStop
        => (/\ requests' = requests
            /\ location_forecasts' = location_forecasts
            /\ page_token' = page_token
            /\ yielded' = yielded
            /\ (outcomes' # outcomes
                    => (CallFinished /\ Last(outcomes').kind = "StopAsyncIteration"))) ]_vars

C4_Witness ==
    /\ Len(outcomes) >= 3
    /\ outcomes[Len(outcomes)].kind = "StopAsyncIteration"
    /\ outcomes[Len(outcomes) - 1].kind = "StopAsyncIteration"
    /\ yielded # <<>>

\* C5: a failed fetch is propagated to the call that issued it and leaves
\* buffer, token and the records already yielded as they were; the next call
\* sends the same request again (same token).
C5_FailureIsolation ==
    /\ [][ \A i \in 1..Len(status) :
              (status[i] = "pending" /\ status'[i] = "RemoteCallError")
                  => (/\ CallFinished
                      /\ Last(outcomes') = Outcome("RemoteCallError", NoRecord, i)
                      /\ location_forecasts' = location_forecasts
                      /\ page_token' = page_token
                      /\ yielded' = yielded) ]_vars
    /\ [][ (/\ outcomes # <<>>
             /\ Last(outcomes).kind = "RemoteCallError"
             /\ Serialized
             /\ vars' # vars)
            => (/\ RequestSent
                /\ Last(requests') = requests[Last(outcomes).req]
                /\ yielded' = yielded) ]_vars

C5_Witness ==
    \E i \in 2..Len(requests) - 1 :
        /\ status[i] = "RemoteCallError"
        /\ status[i + 1] = "ok"
        /\ TokenOf(requests[i]) = Token(1)
        /\ Len(yielded) >= 3

\* C6: the records yielded so far followed by the buffer are the batches of
\* the successful fetches, concatenated in fetch order.
C6_FifoNoLoss ==
    yielded \o location_forecasts
        = Flatten([i \in 1..Len(responses) |-> responses[i].location_forecasts])

C6_Witness ==
    /\ Len(responses) >= 2
    /\ Len(yielded) >= 3
    /\ location_forecasts # <<>>
    /\ \E i \in 1..Len(status) : status[i] \in Exceptions

\* C7: the first request carries no page token; every later request carries
\* the token of the most recent successful fetch; two requests carry the same
\* token only if the earlier one raised.
C7_TokenChaining ==
    /\ [][ requests' # requests
            => (/\ RequestSent
                /\ SubSeq(requests', 1, Len(requests)) = requests
                /\ TokenOf(Last(requests'))
                      = IF responses = <<>> THEN None ELSE Last(responses).next_page_token) ]_vars
    /\ [](\A i, j \in 1..Len(requests) :
            (i < j /\ TokenOf(requests[i]) = TokenOf(requests[j]))
                => status[i] \in Exceptions)

C7_Witness ==
    /\ Len(requests) >= 4
    /\ TokenOf(requests[1]) = None
    /\ \E i \in 2..Len(requests) - 1 :
          /\ status[i] \in Exceptions
          /\ TokenOf(requests[i + 1]) = TokenOf(requests[i])
    /\ TokenOf(Last(requests)) = Token(2)

\* C8: construction sends no request and leaves buffer empty and token
\* unset; a request is sent only by a starting call that finds the buffer
\* empty.
C8_LazyFetch ==
    /\ (requests = <<>> /\ location_forecasts = <<>> /\ page_token = None)
    /\ [][ requests' # requests
            => (/\ location_forecasts = <<>>
                /\ Started' = Started + 1
                /\ outcomes' = outcomes) ]_vars

C8_Witness ==
    /\ Len(requests) = 2
    /\ Len(yielded) >= 3
    /\ location_forecasts # <<>>

\* The single page {records: [r1], token: ""}.
SinglePage == Chain(1, <<1>>)

\* C9: after a successful fetch has returned the empty token no request is
\* sent any more: calls pop the buffered records of that page and, once the
\* buffer is empty, signal end-of-sequence.  For SinglePage the calls yield
\* r1 and then end-of-sequence, with one request in all.
C9_NoFetchAfterLastPage ==
    /\ [][ (responses # <<>> /\ Last(responses).next_page_token = EMPTY_PAGE_TOKEN)
            => (/\ requests' = requests
                /\ (outcomes' # outcomes
                        => (/\ CallFinished
                            /\ Last(outcomes')
                                  = IF location_forecasts = <<>>
                                    THEN Outcome("StopAsyncIteration", NoRecord, 0)
                                    ELSE Outcome("value", Head(location_forecasts), 0)))) ]_vars
    /\ [](pages = SinglePage
            => (/\ Len(requests) <= 1 + Cardinality({i \in 1..Len(status) : status[i] \in Exceptions})
                /\ (AllFetchesSucceeded => YieldsThenStops(ChainRecords(SinglePage)))))

C9_Witness ==
    /\ responses # <<>>
    /\ Last(responses).next_page_token = EMPTY_PAGE_TOKEN
    /\ Len(Last(responses).location_forecasts) = 2
    /\ Len(outcomes) >= 2
    /\ outcomes[Len(outcomes)].kind = "StopAsyncIteration"
    /\ outcomes[Len(outcomes) - 1].kind = "value"

\* C10: every request carries the locations, features, start and end given
\* to the constructor and page size 20; no step changes the stored query;
\* two requests differ at most in the page token.
C10_FixedQuery ==
    /\ [](\A i \in 1..Len(requests) :
            /\ requests[i].locations
                  = [k \in 1..Len(args.locations) |-> LocationToPb(args.locations[k])]
            /\ requests[i].features
                  = [k \in 1..Len(args.features) |-> FeatureValue(args.features[k])]
            /\ requests[i].start_ts = FromDatetime(args.start)
            /\ requests[i].end_ts = FromDatetime(args.end)
            /\ requests[i].pagination_params.page_size = 20)
    /\ [](\A i, j \in 1..Len(requests) :
            [requests[i] EXCEPT !.pagination_params.page_token = None]
                = [requests[j] EXCEPT !.pagination_params.page_token = None])
    /\ [][ query' = query /\ args' = args ]_vars

C10_Witness ==
    /\ Len(requests) >= 3
    /\ TokenOf(requests[1]) # TokenOf(requests[2])
    /\ TokenOf(requests[2]) # TokenOf(requests[3])

\* This step started an __anext__ call.
CallStarted == Started' = Started + 1

\* C11: a call sends exactly one request when it starts with an empty buffer
\* and a token other than the empty token, and none otherwise; the step that
\* completes a fetch sends none, so no call sends two.
C11_OneFetchPerCall ==
    /\ [][ IF CallStarted
           THEN IF location_forecasts = <<>> /\ page_token # EMPTY_PAGE_TOKEN
                THEN RequestSent /\ SubSeq(requests', 1, Len(requests)) = requests
                ELSE requests' = requests
           ELSE requests' = requests ]_vars
    /\ [](Len(requests) <= Started)

C11_Witness ==
    /\ Len(outcomes) = 3
    /\ outcomes[1].kind = "IndexError"
    /\ outcomes[2].kind = "value"
    /\ outcomes[3].kind = "value"
    /\ Len(requests) = 2

\* C12: end-of-sequence is signaled only with the buffer empty, the token
\* equal to the empty token and at least one fetch completed; never in the
\* initial state and never while a continuation token is stored.
C12_StopOnlyWhenExhausted ==
    [][ (CallFinished /\ Last(outcomes').kind = "StopAsyncIteration")
        => (/\ location_forecasts = <<>>
            /\ page_token = EMPTY_PAGE_TOKEN
            /\ page_token # None
            /\ responses # <<>>
            /\ Last(responses).next_page_token = EMPTY_PAGE_TOKEN) ]_vars

C12_Witness ==
    /\ Len(outcomes) >= 2
    /\ outcomes[Len(outcomes)].kind = "StopAsyncIteration"
    /\ outcomes[Len(outcomes) - 1].kind = "IndexError"
    /\ Len(responses) >= 2

\* C13: while a fetch is in flight the buffer is empty and the token is the
\* one the request was built from; the token changes, and the buffer is
\* refilled, only in the step that completes a fetch successfully; a fetch
\* cancelled in flight leaves the buffer empty and the token as it was, and
\* the next call sends the same request again.
C13_InFlightState ==
    /\ [](\A c \in Callers :
            pc[c] = "await"
                => (/\ location_forecasts = <<>>
                    /\ PaginationParams(page_token) = requests[inflight[c]].pagination_params
                    /\ status[inflight[c]] = "pending"))
    /\ [][ (page_token' # page_token \/ Len(location_forecasts') > Len(location_forecasts))
            => (/\ FetchCompleted
                /\ page_token' = Last(responses').next_page_token
                /\ location_forecasts' = Pop(Last(responses').location_forecasts).rest) ]_vars
    /\ [][ \A i \in 1..Len(status) :
              (status[i] = "pending" /\ status'[i] = "CancelledError")
                  => (/\ location_forecasts' = <<>>
                      /\ page_token' = page_token
                      /\ PaginationParams(page_token') = requests[i].pagination_params) ]_vars
    /\ [][ (/\ outcomes # <<>>
             /\ Last(outcomes).kind = "CancelledError"
             /\ Serialized
             /\ vars' # vars)
            => (RequestSent /\ Last(requests') = requests[Last(outcomes).req]) ]_vars

C13_Witness ==
    \E i \in 3..Len(requests) - 1 :
        /\ status[i] = "CancelledError"
        /\ status[i + 1] = "ok"
        /\ TokenOf(requests[i]) = Token(2)
        /\ requests[i + 1] = requests[i]

\* C14: every call ends by yielding a record, by signaling end-of-sequence or
\* by propagating what the remote call raised; a fetch that returns an empty
\* batch never makes the call fail with another error.
C14_ThreeOutcomes ==
    \A i \in 1..Len(outcomes) :
        outcomes[i].kind \in {"value", "StopAsyncIteration"} \cup Exceptions

\* ------------------------------------------- a caller that keeps calling
\* Calls a serialized consumer needs to walk a chain to the end when no fetch
\* raises: one per record, one for each empty page, and the one that stops.
CallsNeeded(chain) ==
    Len(ChainRecords(chain))
        + Cardinality({i \in 1..Len(chain) : chain[i].location_forecasts = <<>>})
        + 1

\* Fetches that have raised so far.
Raised == Cardinality({i \in 1..Len(status) : status[i] \in Exceptions})

\* The chains that can be walked to the end within MaxCalls calls although
\* MaxFails fetches raise.
LiveInit == Init /\ CallsNeeded(pages) + MaxFails <= MaxCalls

\* Only finitely many fetches raise.
LiveRaise ==
    \E c \in Callers : \E exc \in Exceptions : Raised < MaxFails /\ FetchRaise(c, exc)

LiveNext == CallStop \/ CallFetch \/ CallPop \/ AwaitDone \/ LiveRaise

\* The consumer keeps calling __anext__ and a pending remote call returns.
LiveSpec ==
    /\ LiveInit
    /\ [][LiveNext]_vars
    /\ WF_vars(CallStop \/ CallFetch \/ CallPop)
    /\ WF_vars(AwaitDone)

\* C15: with a consumer that keeps calling and fetches that eventually
\* succeed, the iterator ends up exhausted (empty buffer, empty token) with
\* end-of-sequence signaled and as many successful fetches as the chain has
\* pages.
C15_EventuallyExhausted ==
    <>[](/\ IsExhausted(location_forecasts, page_token)
         /\ SignaledStop
         /\ Cardinality({i \in 1..Len(status) : status[i] = "ok"}) = Len(pages))

C15_Witness ==
    /\ IsExhausted(location_forecasts, page_token)
    /\ SignaledStop
    /\ Len(pages) = 3
    /\ Len(responses) = 3
    /\ Raised = 1

\* ------------------------------------------------------ overlapping calls
\* __anext__ takes no lock: a call may start while another one is suspended
\* in its fetch.
OverlapStop  == \E c \in Callers : RaiseStop(c)
OverlapFetch == \E c \in Callers : IssueFetch(c)
OverlapPop   == \E c \in Callers : PopBuffered(c)

OverlapNext == OverlapStop \/ OverlapFetch \/ OverlapPop \/ AwaitDone \/ LiveRaise

\* The chains that can be walked to the end within MaxCalls calls with MaxFails
\* fetches raising and one redundant call per caller.
OverlapInit == Init /\ CallsNeeded(pages) + MaxFails + NumCallers <= MaxCalls

OverlapSpec == OverlapInit /\ [][OverlapNext]_vars

\* C16: nothing guards against overlapping calls: a call that starts while
\* another call's fetch is in flight, with buffer and token still as that
\* fetch found them, sends the same request again; and every successful
\* completion overwrites buffer and token with its own response, whatever
\* an earlier completion installed.
C16_OverlappingCalls ==
    /\ [][ \A d \in Callers :
              (/\ pc[d] = "await"
               /\ CallStarted
               /\ location_forecasts = <<>>
               /\ PaginationParams(page_token) = requests[inflight[d]].pagination_params)
                  => (/\ RequestSent
                      /\ Last(requests') = requests[inflight[d]]
                      /\ outcomes' = outcomes) ]_vars
    /\ [][ FetchCompleted
            => (/\ page_token' = Last(responses').next_page_token
                /\ location_forecasts' = Pop(Last(responses').location_forecasts).rest) ]_vars

\* Two overlapping fetches of the same page both succeeded and a record of
\* that page was yielded twice.
C16_Witness ==
    /\ \E i, j \in 1..Len(requests) :
          /\ i < j
          /\ requests[i] = requests[j]
          /\ status[i] = "ok"
          /\ status[j] = "ok"
    /\ \E i, j \in 1..Len(yielded) : i < j /\ yielded[i] = yielded[j]
    /\ yielded \o location_forecasts
          # Flatten([i \in 1..Len(responses) |-> responses[i].location_forecasts])

====
